---- MODULE Spec2Model ----
(***************************************************************************)
(* Model of lovable-mcp-server (src/src/index.ts): the SSE session layer   *)
(* (GET /sse, POST /messages, the transports table), the endpoints         *)
(* GET /health and GET /, the tool update_file with the upstream contents  *)
(* API it talks to, the handlers of rename_file, get_diff,                 *)
(* get_project_stats and of the folder and well-known-file tools, and the  *)
(* handlers of generate_build_url, list_projects, delete_file and          *)
(* read_multiple_files with their arguments.                               *)
(*                                                                         *)
(* The MCP SDK (SSEServerTransport, McpServer) is not part of the          *)
(* repository.  Its calls are modelled at their call sites by the          *)
(* behaviour of the SDK's Transport contract:                              *)
(*   - new SSEServerTransport draws sessionId from randomUUID();           *)
(*   - connect() -> start() opens the channel (or throws) and runs         *)
(*     synchronously, so no other event is handled before it returns;      *)
(*   - the response's 'close' event clears the channel and calls onclose;  *)
(*   - handlePostMessage throws when the channel is not established and    *)
(*     answers 202 to a JSON-RPC message (request bodies are well-formed); *)
(*   - a tools/call naming no registered tool, or with arguments the       *)
(*     tool's schema rejects, is answered InvalidParams without the        *)
(*     handler being called;                                               *)
(*   - a tool handler's throw is turned into an isError Result, and the    *)
(*     Result is sent on the transport the request arrived on; send() on   *)
(*     a transport without channel throws "Not connected", which the       *)
(*     protocol layer reports through onerror.                             *)
(***************************************************************************)
EXTENDS Integers, FiniteSets, Sequences, TLC

\* ---------------------------------------------------------------- bounds
MaxConns == 2
MaxReqs == 2
MaxLateClose == 1

\* connections and requests are numbered in the order they arrive
Conns == 1..MaxConns
Reqs == 1..MaxReqs
\* session identifiers (UUID strings); one spare so that a POST can name an
\* identifier that no session ever had
Ids == 1..(MaxConns + 1)
\* req.query.sessionId absent or "" (both falsy at index.ts:1196)
NoSessionId == 0
NoConn == 0
Causes == {"disconnect", "error"}
Outcomes == {"result", "isError"}

\* --- update_file
MaxCalls == 2
MaxTokens == 2
MaxOtherWrites == 1
Calls == 1..MaxCalls
Tokens == 1..MaxTokens
Branches == {"main", "dev"}
\* GET .../contents/${path} without ?ref reads the default branch
DefaultBranch == "main"
NoFile == 0
NoSha == 0
NoResult == [ok |-> FALSE, kind |-> "none", status |-> 0]
\* a writer of the path that is not one of the update_file calls
OtherActor == MaxCalls + 1
\* overlap:  another call was in flight together with this one
\* beatenBy: the writer (a call, or OtherActor) whose accepted write changed
\*           the branch's token while this call held it as the sha for its
\*           PUT; 0 when there is none or the token has been restored since
\* read:     the HTTP status that answered the initial GET of a call whose
\*           PUT is outstanding (0 otherwise)
NoHist == [overlap |-> FALSE, beatenBy |-> 0, read |-> 0]
\* status of a read that fails for another reason than absence; the handlers
\* never look at the status of a failure, so 403 (authorization, rate limit)
\* stands for 401, 429 and 5xx as well
ReadFaults == {403}

\* --- the other tool handlers
\* index.ts:917-982, 1076-1086
WellKnownFiles == {"get_supabase_config", "get_tailwind_config",
                   "get_vite_config", "get_package_json", "get_env_example",
                   "get_readme"}
\* index.ts:766-915
ConventionalFolders == {"list_components", "list_custom_components",
                        "list_pages", "list_hooks", "list_contexts",
                        "list_utils", "list_types", "list_integrations"}
Tools == WellKnownFiles \cup ConventionalFolders
           \cup {"get_diff", "rename_file", "get_project_stats"}
\* index.ts:159-164: repository, languages, contributors, commits
StatsCalls == {"repo", "languages", "contributors", "commits"}
\* index.ts:260-261: oldPath, newPath
Paths == {"oldPath", "newPath"}
\* what the upstream can answer to a GET: found, absent, or another failure
GetAnswers == {200, 404} \cup ReadFaults
NoPrev == [tool |-> "none", seen |-> <<>>, res |-> NoResult]
\* a tools/call names a tool and carries arguments: as the tool's schema wants
\* them, lacking a required one, or with one of the wrong type
Shapes == {"valid", "missing", "wrongType"}
UnknownTool == "no_such_tool"
NoArgs == [shape |-> "valid"]

\* --- registry and information endpoints
\* index.ts:1222: the literal toolCount of GET /health
toolCount == 50
\* index.ts:1219, 1254: version
Version == "2.0.0"
NoResponse == [status |-> "none"]

\* index.ts:1227-1248
TOOLS ==
  <<
   "list_projects", "get_project", "get_project_structure", "get_full_tree",
   "get_project_stats", "read_file", "read_multiple_files", "update_file",
   "delete_file", "rename_file", "copy_file", "get_file_history",
   "get_commits", "get_commit_details", "get_branches", "create_branch",
   "delete_branch", "compare", "get_diff", "list_tags", "create_tag",
   "list_releases", "create_release", "list_pull_requests",
   "get_pull_request", "create_pull_request", "merge_pull_request",
   "list_issues", "create_issue", "update_issue", "search_code",
   "search_commits", "search_issues", "list_components",
   "list_custom_components", "list_pages", "list_hooks", "list_contexts",
   "list_utils", "list_types", "list_integrations", "get_supabase_config",
   "get_tailwind_config", "get_vite_config", "get_package_json",
   "get_env_example", "analyze_dependencies", "get_routes", "get_readme",
   "get_contributors", "get_languages", "generate_build_url">>

\* index.ts:85-1135: the names the n-th call of createMcpServer registers with
\* server.tool on the McpServer it returns; no name occurs twice, so no
\* registration throws
createMcpServerOnce(n) ==
  IF n = 1 THEN
  {
     "list_projects", "get_project", "get_project_structure", "get_full_tree",
     "get_project_stats", "read_file", "read_multiple_files", "update_file",
     "delete_file", "rename_file", "copy_file", "get_file_history",
     "get_commits", "get_commit_details", "get_branches", "create_branch",
     "delete_branch", "compare", "get_diff", "list_tags", "create_tag",
     "list_releases", "create_release", "list_pull_requests",
     "get_pull_request", "create_pull_request", "merge_pull_request",
     "list_issues", "create_issue", "update_issue", "search_code",
     "search_commits", "search_issues", "list_components",
     "list_custom_components", "list_pages", "list_hooks", "list_contexts",
     "list_utils", "list_types", "list_integrations", "get_supabase_config",
     "get_tailwind_config", "get_vite_config", "get_package_json",
     "get_env_example", "analyze_dependencies", "get_routes", "get_readme",
     "get_contributors", "get_languages", "generate_build_url"}
  ELSE {}
NoServer == 0
createMcpServer(n) ==
  {
   "list_projects", "get_project", "get_project_structure", "get_full_tree",
   "get_project_stats", "read_file", "read_multiple_files", "update_file",
   "delete_file", "rename_file", "copy_file", "get_file_history",
   "get_commits", "get_commit_details", "get_branches", "create_branch",
   "delete_branch", "compare", "get_diff", "list_tags", "create_tag",
   "list_releases", "create_release", "list_pull_requests",
   "get_pull_request", "create_pull_request", "merge_pull_request",
   "list_issues", "create_issue", "update_issue", "search_code",
   "search_commits", "search_issues", "list_components",
   "list_custom_components", "list_pages", "list_hooks", "list_contexts",
   "list_utils", "list_types", "list_integrations", "get_supabase_config",
   "get_tailwind_config", "get_vite_config", "get_package_json",
   "get_env_example", "analyze_dependencies", "get_routes", "get_readme",
   "get_contributors", "get_languages", "generate_build_url"}

VARIABLES
  transports,   \* index.ts:82   sessionId -> transport (a connection of Conns)
  used,         \* identifiers randomUUID has handed out
  sessionId,    \* transport.sessionId of each connection (NoSessionId: not created)
  pc,           \* position of each GET /sse handler / state of its stream
  sseResponse,  \* SSEServerTransport._sseResponse is set (channel established)
  cause,        \* what ended the last stream: "disconnect", "error" (failed write)
  lateClose,    \* number of onclose calls made for streams already gone
  stream,       \* frames written on each connection's SSE response
  rpc,          \* state of each POST /messages request
  rsid,         \* the sessionId the request named
  rconn,        \* the transport the request was handed to
  rstatus,      \* HTTP status of the POST response
  routcome,     \* terminal outcomes the dispatcher produced for the request
  rseen,        \* what the named identifier was when the POST arrived
  dropped,      \* Results whose send() found no channel (reported via onerror)
  crashed,      \* an error escaped every catch: the process is gone
  mcpServer,    \* index.ts:1172: which createMcpServer call made the McpServer
                \* of each connection (NoServer: none yet)
  created,      \* number of createMcpServer calls made (index.ts:1172)
  health,       \* body of the last GET /health response
  root,         \* body of the last GET / response
  \* --- the upstream contents API and the update_file calls (index.ts:211-235)
  file,         \* version token (blob sha) of the one path on each branch
  otherWrites,  \* writes to the path made by other actors
  upc,          \* position of each update_file call
  ubranch,      \* its branch argument after "branch || 'main'"
  usha,         \* the sha it read (NoSha: undefined)
  ures,         \* its Result
  uhist,        \* what happened to the call, for stating the claims
  \* --- one call at a time of the other tool handlers (index.ts:156-1086)
  tool,         \* the tool the current call runs ("none": no call yet)
  tpc,          \* position of its handler
  tseen,        \* the HTTP statuses the upstream answered to it, in order
  tres,         \* its Result
  prev,         \* tool, statuses and Result of the call before it
  tree,         \* rename_file: the paths that exist upstream
  sub,          \* get_project_stats: state of each of the four requests
  contributorsCount, \* get_project_stats: the count in its payload (-1: none)
  targs,        \* the arguments of the current call
  ti,           \* the position of its loop in its input list
  tout,         \* the payload it has built so far
  account       \* the repositories the upstream lists for the account

sessVars == <<transports, used, sessionId, pc, sseResponse, cause, lateClose,
              stream, rpc, rsid, rconn, rstatus, routcome, rseen, dropped,
              crashed, mcpServer, created>>
updVars == <<file, otherWrites, upc, ubranch, usha, ures, uhist>>
regVars == <<mcpServer, created>>
infoVars == <<health, root>>
toolVars == <<tool, tpc, tseen, tres, prev, tree, sub, contributorsCount>>
callVars == <<targs, ti, tout, account>>
vars == <<sessVars, updVars, toolVars, infoVars, callVars>>
nonSessVars == <<updVars, toolVars, infoVars, callVars>>
nonUpdVars == <<sessVars, toolVars, infoVars, callVars>>
nonToolVars == <<sessVars, updVars, infoVars, callVars>>

connVars == <<transports, used, sessionId, pc, sseResponse, cause, lateClose,
              regVars>>
reqVars == <<rpc, rsid, rconn, rstatus, routcome, rseen>>

\* ------------------------------------------------------------ table helpers
\* transports[sessionId] = transport            (index.ts:1168)
TableInsert(tbl, id, c) ==
  [x \in (DOMAIN tbl) \cup {id} |-> IF x = id THEN c ELSE tbl[x]]

\* delete transports[sessionId]                 (index.ts:1176, 1184)
TableDeleteKeep(tbl, id) == tbl
TableDeleteOrOldest(tbl, id) ==
  LET gone == IF id \in DOMAIN tbl THEN {id}
              ELSE {x \in DOMAIN tbl : \A y \in DOMAIN tbl : x <= y}
  IN [x \in (DOMAIN tbl) \ gone |-> tbl[x]]
TableDelete(tbl, id) ==
  [x \in (DOMAIN tbl) \ {id} |-> tbl[x]]

\* the key onclose and the connect catch delete: the sessionId captured by the
\* GET /sse handler of that very transport (index.ts:1167, 1176, 1184)
OnCloseKeyFirst(ids, c) == ids[1]
OnCloseKey(ids, c) == ids[c]

\* randomUUID() in the SSEServerTransport constructor (index.ts:1166-1167):
\* the identifiers a new transport can get.  Identifiers are opaque and only
\* compared for equality, so the fresh one is represented by the least
\* identifier never handed out.
randomUUIDAny(usedIds) == Ids
randomUUID(usedIds) ==
  {id \in Ids \ usedIds : \A other \in Ids \ usedIds : id <= other}

\* the guards of POST /messages (index.ts:1196-1203): the status of the early
\* return, 0 when the request goes on to transport.handlePostMessage
PostGuardNoLookup(tbl, sid) ==
  IF sid = NoSessionId THEN 400 ELSE 0
PostGuard(tbl, sid) ==
  IF sid = NoSessionId THEN 400
  ELSE IF sid \notin DOMAIN tbl THEN 404
  ELSE 0

\* the transport whose send() carries the Result of a request: the one whose
\* handlePostMessage received it (index.ts:1200, 1206; one McpServer per
\* transport, index.ts:1172, 1180)
ReplyTransportOther(r, handedTo) == IF handedTo = 1 THEN MaxConns ELSE 1
ReplyTransport(r, handedTo) == handedTo

\* frames the dispatcher writes for one finished handler: exactly one
FramesTwice(r) == <<r, r>>
Frames(r) == <<r>>

\* a handler fault (a throw of githubRequest, index.ts:23-26) never escapes:
\* TRUE iff the process dies of it
HandlerFaultKillsAlways(outcome) == outcome = "isError"
HandlerFaultKills(outcome) == FALSE

\* send() on a transport without channel: TRUE iff the error escapes
SendOnClosedKillsAlways(open) == ~open
SendOnClosedKills(open) == FALSE

\* the single event loop: start() runs inside the GET /sse handler before any
\* other event is handled
Busy == \E c \in Conns : pc[c] = "connecting"

ClosedIds == {sessionId[c] : c \in {d \in Conns : pc[d] \in {"closed", "failed"}}}

\* what a session identifier stands for when a POST names it
Standing(sid) ==
  IF sid = NoSessionId THEN "missing"
  ELSE IF sid \in ClosedIds THEN "closed"
  ELSE IF sid \in used THEN "live"
  ELSE "unknown"

\* ---------------------------------------------------------------- Init
InitSession ==
  /\ transports = <<>>
  /\ used = {}
  /\ sessionId = [c \in Conns |-> NoSessionId]
  /\ pc = [c \in Conns |-> "idle"]
  /\ sseResponse = [c \in Conns |-> FALSE]
  /\ cause = "none"
  /\ lateClose = 0
  /\ stream = [c \in Conns |-> <<>>]
  /\ rpc = [r \in Reqs |-> "unsent"]
  /\ rsid = [r \in Reqs |-> NoSessionId]
  /\ rconn = [r \in Reqs |-> NoConn]
  /\ rstatus = [r \in Reqs |-> 0]
  /\ routcome = [r \in Reqs |-> <<>>]
  /\ rseen = [r \in Reqs |-> "unsent"]
  /\ dropped = {}
  /\ crashed = FALSE
  /\ mcpServer = [c \in Conns |-> NoServer]
  /\ created = 0
  /\ health = NoResponse
  /\ root = NoResponse

InitCalls ==
  /\ otherWrites = 0
  /\ upc = [k \in Calls |-> "idle"]
  /\ ubranch = [k \in Calls |-> DefaultBranch]
  /\ usha = [k \in Calls |-> NoSha]
  /\ ures = [k \in Calls |-> NoResult]
  /\ uhist = [k \in Calls |-> NoHist]

InitTools ==
  /\ tool = "none"
  /\ tpc = "idle"
  /\ tseen = <<>>
  /\ tres = NoResult
  /\ prev = NoPrev
  /\ sub = [i \in StatsCalls |-> "idle"]
  /\ contributorsCount = -1
  /\ ti = 0
  /\ tout = <<>>

\* no call yet, or a call of a tool followed without its arguments
InitNoArgs == targs = NoArgs /\ account = <<>>

Init ==
  /\ InitSession
  /\ InitCalls
  /\ file = [b \in Branches |-> NoFile]
  /\ InitTools
  /\ InitNoArgs
  /\ tree = {}

\* ---------------------------------------------------------------- GET /sse
\* index.ts:1158-1177: create the transport, insert it, install onclose
SseOpen(c) ==
  /\ ~crashed /\ ~Busy
  /\ pc[c] = "idle"
  /\ \A b \in Conns : b < c => pc[b] # "idle"
  /\ \E id \in randomUUID(used) :
       /\ sessionId' = [sessionId EXCEPT ![c] = id]
       /\ used' = used \cup {id}
       /\ transports' = TableInsert(transports, id, c)
  /\ mcpServer' = [mcpServer EXCEPT ![c] = created + 1]
  /\ created' = created + 1
  /\ pc' = [pc EXCEPT ![c] = "connecting"]
  /\ UNCHANGED <<sseResponse, cause, lateClose, stream, reqVars, dropped, crashed>>
  /\ UNCHANGED nonSessVars

\* index.ts:1179-1181: mcpServer.connect(transport) returns
SseConnectOk(c) ==
  /\ ~crashed
  /\ pc[c] = "connecting"
  /\ sseResponse' = [sseResponse EXCEPT ![c] = TRUE]
  /\ pc' = [pc EXCEPT ![c] = "open"]
  /\ UNCHANGED <<transports, used, sessionId, cause, lateClose, stream,
                 reqVars, dropped, crashed, regVars>>
  /\ UNCHANGED nonSessVars

\* index.ts:1182-1187: mcpServer.connect(transport) throws
SseConnectFail(c) ==
  /\ ~crashed
  /\ pc[c] = "connecting"
  /\ transports' = TableDelete(transports, OnCloseKey(sessionId, c))
  /\ pc' = [pc EXCEPT ![c] = "failed"]
  /\ UNCHANGED <<used, sessionId, sseResponse, cause, lateClose, stream,
                 reqVars, dropped, crashed, regVars>>
  /\ UNCHANGED nonSessVars

\* the response's 'close' event (client disconnect or a failed write to the
\* client): the transport drops its channel and calls onclose, index.ts:1174-1177
StreamClose(c, why) ==
  /\ ~crashed /\ ~Busy
  /\ pc[c] = "open"
  /\ cause' = why
  /\ sseResponse' = [sseResponse EXCEPT ![c] = FALSE]
  /\ transports' = TableDelete(transports, OnCloseKey(sessionId, c))
  /\ pc' = [pc EXCEPT ![c] = "closed"]
  /\ UNCHANGED <<used, sessionId, lateClose, stream, reqVars, dropped, crashed, regVars>>
  /\ UNCHANGED nonSessVars

\* onclose called again for a stream that is already gone (after the catch of
\* index.ts:1184, or a second close notification), index.ts:1174-1177
LateOnClose(c) ==
  /\ ~crashed /\ ~Busy
  /\ pc[c] \in {"closed", "failed"}
  /\ lateClose < MaxLateClose
  /\ lateClose' = lateClose + 1
  /\ transports' = TableDelete(transports, OnCloseKey(sessionId, c))
  /\ UNCHANGED <<used, sessionId, pc, sseResponse, cause, stream, reqVars,
                 dropped, crashed, regVars>>
  /\ UNCHANGED nonSessVars

\* ------------------------------------------------------------ POST /messages
\* index.ts:1192-1213
PostMessage(r, sid) ==
  /\ ~crashed /\ ~Busy
  /\ rpc[r] = "unsent"
  /\ \A q \in Reqs : q < r => rpc[q] # "unsent"
  /\ rsid' = [rsid EXCEPT ![r] = sid]
  /\ rseen' = [rseen EXCEPT ![r] = Standing(sid)]
  /\ LET early == PostGuard(transports, sid) IN
     IF early # 0
     THEN /\ rstatus' = [rstatus EXCEPT ![r] = early]
          /\ rpc' = [rpc EXCEPT ![r] = "rejected"]
          /\ UNCHANGED rconn
     ELSE LET t == IF sid \in DOMAIN transports THEN transports[sid] ELSE 1 IN
          \* transport.handlePostMessage(req, res), index.ts:1205-1212
          IF ~sseResponse[t]
          THEN \* "SSE connection not established": 500 written, throw caught
               /\ rstatus' = [rstatus EXCEPT ![r] = 500]
               /\ rpc' = [rpc EXCEPT ![r] = "rejected"]
               /\ rconn' = [rconn EXCEPT ![r] = t]
          ELSE \* a JSON-RPC tools/call: handed to the McpServer, 202 Accepted
               /\ rstatus' = [rstatus EXCEPT ![r] = 202]
               /\ rpc' = [rpc EXCEPT ![r] = "running"]
               /\ rconn' = [rconn EXCEPT ![r] = t]
  /\ UNCHANGED <<connVars, stream, routcome, dropped, crashed>>
  /\ UNCHANGED nonSessVars

\* handlePostMessage (index.ts:1206) starts the handler of each message as it
\* comes and waits for no handler started before: TRUE iff r has to wait
BlockedByEarlier(r) ==
  \E q \in Reqs : q < r /\ rpc[q] = "running" /\ rconn[q] = rconn[r]
Blocked(r) == FALSE

\* the tool handler of an accepted request finishes (returns, or throws, e.g.
\* githubRequest index.ts:23-26) and the dispatcher sends its one Result
HandlerDone(r, outcome) ==
  /\ ~crashed /\ ~Busy
  /\ rpc[r] = "running"
  /\ ~Blocked(r)
  /\ rpc' = [rpc EXCEPT ![r] = "done"]
  /\ routcome' = [routcome EXCEPT ![r] = Append(@, outcome)]
  /\ LET t == ReplyTransport(r, rconn[r]) IN
     IF sseResponse[t]
     THEN /\ stream' = [stream EXCEPT ![t] = @ \o Frames(r)]
          /\ UNCHANGED dropped
          /\ crashed' = HandlerFaultKills(outcome)
     ELSE /\ dropped' = dropped \cup {r}
          /\ UNCHANGED stream
          /\ crashed' = (HandlerFaultKills(outcome) \/ SendOnClosedKills(sseResponse[t]))
  /\ UNCHANGED <<connVars, rsid, rconn, rstatus, rseen>>
  /\ UNCHANGED nonSessVars

Next ==
  \/ \E c \in Conns : SseOpen(c)
  \/ \E c \in Conns : SseConnectOk(c)
  \/ \E c \in Conns : SseConnectFail(c)
  \/ \E c \in Conns, why \in Causes : StreamClose(c, why)
  \/ \E c \in Conns : LateOnClose(c)
  \/ \E r \in Reqs, sid \in Ids \cup {NoSessionId} : PostMessage(r, sid)
  \/ \E r \in Reqs, o \in Outcomes : HandlerDone(r, o)

Spec == Init /\ [][Next]_vars

TypeOK ==
  /\ DOMAIN transports \subseteq Ids
  /\ \A id \in DOMAIN transports : transports[id] \in Conns
  /\ used \subseteq Ids
  /\ pc \in [Conns -> {"idle", "connecting", "open", "closed", "failed"}]
  /\ rpc \in [Reqs -> {"unsent", "rejected", "running", "done"}]
  /\ crashed \in BOOLEAN

\* ================================================================ update_file
\* githubRequest, index.ts:23-28: response.ok decides between return and throw
responseOkAlways(status) == TRUE
responseOk(status) == status \in 200..299

\* index.ts:25: every non-success status is thrown as the same plain Error,
\* the status only being part of its message; the McpServer turns the throw
\* into an isError Result with that message
GithubError(status) == [ok |-> FALSE, kind |-> "Error", status |-> status]

\* index.ts:234: { success: true, commit: result.commit.sha }
UpdateSuccess(status) == [ok |-> TRUE, kind |-> "success", status |-> status]

\* the upstream's answer to GET .../contents/${path} (index.ts:220)
GetStatus(cur) == IF cur = NoFile THEN 404 ELSE 200

\* the upstream's answer to PUT .../contents/${path} with { branch, sha }
\* (index.ts:224-232): create needs no sha, an update needs the current one
PutStatus(cur, sha) ==
  IF cur = NoFile
  THEN (IF sha = NoSha THEN 201 ELSE 409)
  ELSE IF sha = NoSha THEN 422
  ELSE IF sha = cur THEN 200
  ELSE 409

InFlight(k) == upc[k] \in {"reading", "writing"}

\* the history of the calls after writer w had token t accepted on branch b
Beaten(w, b, t) ==
  [k \in Calls |->
     IF k # w /\ upc[k] = "writing" /\ ubranch[k] = b /\ t # file[b]
     THEN (IF t = usha[k] THEN [uhist[k] EXCEPT !.beatenBy = 0]
           ELSE IF usha[k] = file[b] THEN [uhist[k] EXCEPT !.beatenBy = w]
           ELSE uhist[k])
     ELSE uhist[k]]

\* tokens are only compared for equality: the first ones stand for all
InitUpdate ==
  /\ InitSession
  /\ InitCalls
  /\ file \in {f \in [Branches -> Tokens \cup {NoFile}] :
                 f["main"] <= 1 /\ f["dev"] <= 2}
  /\ InitTools
  /\ InitNoArgs
  /\ tree = {}

\* index.ts:217-220: the handler is invoked and issues its GET
UpdStart(k, b) ==
  /\ upc[k] = "idle"
  /\ \A j \in Calls : j < k => upc[j] # "idle"
  /\ upc' = [upc EXCEPT ![k] = "reading"]
  /\ ubranch' = [ubranch EXCEPT ![k] = b]
  /\ uhist' = [j \in Calls |->
                IF (j = k /\ \E i \in Calls \ {k} : InFlight(i))
                   \/ (j # k /\ InFlight(j))
                THEN [uhist[j] EXCEPT !.overlap = TRUE]
                ELSE uhist[j]]
  /\ UNCHANGED <<file, otherWrites, usha, ures>>
  /\ UNCHANGED nonUpdVars

\* index.ts:219-222: the GET is answered; 200 gives the sha, 404 throws into
\* the empty catch and leaves sha undefined
UpdRead(k) ==
  /\ upc[k] = "reading"
  /\ usha' = [usha EXCEPT ![k] =
                IF responseOk(GetStatus(file[DefaultBranch]))
                THEN file[DefaultBranch] ELSE NoSha]
  /\ uhist' = [uhist EXCEPT ![k].read = GetStatus(file[DefaultBranch])]
  /\ upc' = [upc EXCEPT ![k] = "writing"]
  /\ UNCHANGED <<file, otherWrites, ubranch, ures>>
  /\ UNCHANGED nonUpdVars

\* index.ts:219-222: the GET fails with status s for another reason than
\* absence; githubRequest throws, the same empty catch swallows the throw and
\* leaves sha undefined, and the handler goes on to the PUT
UpdReadError(k, s) ==
  /\ upc[k] = "reading"
  /\ usha' = [usha EXCEPT ![k] = NoSha]
  /\ uhist' = [uhist EXCEPT ![k].read = s]
  /\ upc' = [upc EXCEPT ![k] = "writing"]
  /\ UNCHANGED <<file, otherWrites, ubranch, ures>>
  /\ UNCHANGED nonUpdVars

\* index.ts:224-234: the PUT is answered; t is the token of the new content
UpdPut(k, t) ==
  /\ upc[k] = "writing"
  /\ LET b == ubranch[k]
         status == PutStatus(file[b], usha[k])
         accepted == status \in {200, 201}
     IN /\ file' = IF accepted THEN [file EXCEPT ![b] = t] ELSE file
        /\ ures' = [ures EXCEPT ![k] =
                      IF responseOk(status) THEN UpdateSuccess(status)
                      ELSE GithubError(status)]
        /\ uhist' = [(IF accepted THEN Beaten(k, b, t) ELSE uhist)
                       EXCEPT ![k].read = 0]
  /\ upc' = [upc EXCEPT ![k] = "done"]
  /\ UNCHANGED <<otherWrites, ubranch, usha>>
  /\ UNCHANGED nonUpdVars

\* another actor creates, changes or deletes the file on a branch
OtherActorWrite(b, t) ==
  /\ otherWrites < MaxOtherWrites
  /\ t # file[b]
  /\ file' = [file EXCEPT ![b] = t]
  /\ otherWrites' = otherWrites + 1
  /\ uhist' = Beaten(OtherActor, b, t)
  /\ UNCHANGED <<upc, ubranch, usha, ures>>
  /\ UNCHANGED nonUpdVars

NextUpdate ==
  \/ \E k \in Calls, b \in Branches : UpdStart(k, b)
  \/ \E k \in Calls : UpdRead(k)
  \/ \E k \in Calls, s \in ReadFaults : UpdReadError(k, s)
  \/ \E k \in Calls, t \in Tokens : UpdPut(k, t)
  \/ \E b \in Branches, t \in Tokens \cup {NoFile} : OtherActorWrite(b, t)

SpecUpdate == InitUpdate /\ [][NextUpdate]_vars

\* ================================================================ tool handlers
\* the handlers are stateless: a call shares nothing with the calls before it
\* but the upstream, so the calls are followed one at a time

\* the handlers that wrap their githubRequest in try/catch and return a text
\* from the catch: all of them but get_package_json (index.ts:964-970)
CatchesButHooks(t) ==
  t \in (WellKnownFiles \cup ConventionalFolders) \ {"get_package_json", "list_hooks"}
Catches(t) ==
  t \in (WellKnownFiles \cup ConventionalFolders) \ {"get_package_json"}

\* a success Result with the decoded file or the listing (e.g. index.ts:777-781)
ToolData(status) == [ok |-> TRUE, kind |-> "data", status |-> status]
\* the success Result a catch returns: "No ... found", { error: "No ... found" },
\* { hasSupabase: false }  (e.g. index.ts:779-781, 935-937, 1083-1085)
ToolMarker == [ok |-> TRUE, kind |-> "marker", status |-> 0]
\* index.ts:445-446: get_diff returns response.text() whatever response.status is
DiffResult(status) == [ok |-> TRUE, kind |-> "body", status |-> status]
\* index.ts:285, 166-176: the success Results of rename_file, get_project_stats
ToolSuccess(status) == [ok |-> TRUE, kind |-> "success", status |-> status]

\* index.ts:162: only the contributors request has a .catch(() => [])
ToleratedNone(i) == FALSE
Tolerated(i) == i = "contributors"

\* index.ts:865-880: the catch of list_utils tries src/lib before giving up
HasFallbackNone(t) == FALSE
HasFallback(t) == t = "list_utils"

\* the first position of each handler
FirstStep(t) ==
  IF t = "get_project_stats" THEN "all"
  ELSE IF t = "rename_file" THEN "read"
  ELSE IF t = "get_diff" THEN "fetch"
  ELSE "get"

\* what the McpServer does with a tools/call before any handler runs: the
\* name must be one registered with server.tool and the arguments must parse
\* against the schema given there (e.g. index.ts:181-185; every tool modelled
\* here requires repo: z.string())
ValidateNameOnly(name, shape) ==
  IF name \notin createMcpServer(1) THEN "unknown" ELSE "ok"
Validate(name, shape) ==
  IF name \notin createMcpServer(1) THEN "unknown"
  ELSE IF shape # "valid" THEN "invalid"
  ELSE "ok"

\* the failure the McpServer answers to a call it does not accept
McpError == [ok |-> FALSE, kind |-> "InvalidParams", status |-> 0]

\* a tools/call for tool t arrives; an accepted one reaches the handler, and
\* get_project_stats issues its four requests at once (Promise.all,
\* index.ts:159-164)
ToolStart(t, shape) ==
  /\ tpc \in {"idle", "done"}
  /\ prev' = IF tpc = "done"
             THEN [tool |-> tool, seen |-> tseen, res |-> tres] ELSE prev
  /\ tool' = t
  /\ targs' = [shape |-> shape]
  /\ tseen' = <<>>
  /\ LET accepted == Validate(t, shape) = "ok" IN
       /\ tpc' = IF accepted THEN FirstStep(t) ELSE "done"
       /\ tres' = IF accepted THEN NoResult ELSE McpError
       /\ sub' = [i \in StatsCalls |->
                    IF accepted /\ t = "get_project_stats"
                    THEN "pending" ELSE "idle"]
  /\ contributorsCount' = -1
  /\ UNCHANGED <<tree, ti, tout, account>>
  /\ UNCHANGED <<sessVars, updVars, infoVars>>

\* the one githubRequest of a well-known-file or folder handler is answered
\* with status s (index.ts:769-781 and alike)
ToolGet(s) ==
  /\ tpc = "get"
  /\ tseen' = Append(tseen, s)
  /\ IF responseOk(s)
     THEN IF tool = "get_supabase_config"
          THEN /\ tpc' = "types"
               /\ UNCHANGED tres
          ELSE /\ tpc' = "done"
               /\ tres' = ToolData(s)
     ELSE IF Catches(tool)
          THEN IF HasFallback(tool)
               THEN /\ tpc' = "lib"
                    /\ UNCHANGED tres
               ELSE /\ tpc' = "done"
                    /\ tres' = ToolMarker
          ELSE /\ tpc' = "done"
               /\ tres' = GithubError(s)
  /\ UNCHANGED <<tool, prev, tree, sub, contributorsCount>>
  /\ UNCHANGED nonToolVars

\* the second githubRequest: types.ts of get_supabase_config, whose failure an
\* inner empty catch swallows (index.ts:925-929), or src/lib of list_utils
\* (index.ts:866-880)
ToolGetSecond(s) ==
  /\ tpc \in {"types", "lib"}
  /\ tseen' = Append(tseen, s)
  /\ tpc' = "done"
  /\ tres' = IF tpc = "types" THEN ToolData(tseen[1])
             ELSE IF responseOk(s) THEN ToolData(s)
             ELSE ToolMarker
  /\ UNCHANGED <<tool, prev, tree, sub, contributorsCount>>
  /\ UNCHANGED nonToolVars

\* index.ts:437-446: the fetch of get_diff is answered with status s
DiffFetch(s) ==
  /\ tpc = "fetch"
  /\ tseen' = Append(tseen, s)
  /\ tpc' = "done"
  /\ tres' = DiffResult(s)
  /\ UNCHANGED <<tool, prev, tree, sub, contributorsCount>>
  /\ UNCHANGED nonToolVars

\* what the upstream answers to the requests of rename_file
RenameReadAnswers == {IF "oldPath" \in tree THEN 200 ELSE 404} \cup ReadFaults
\* a PUT without sha creates the file, and is refused when the path exists
RenamePutAnswers == {IF "newPath" \in tree THEN 422 ELSE 201} \cup ReadFaults
\* a DELETE with the sha read before: 409 when the file was changed since
RenameDeleteAnswers ==
  (IF "oldPath" \in tree THEN {200, 409} ELSE {404}) \cup ReadFaults

\* index.ts:263-265: read the old file
RenameRead(s) ==
  /\ tpc = "read"
  /\ s \in RenameReadAnswers
  /\ tseen' = Append(tseen, s)
  /\ IF responseOk(s)
     THEN /\ tpc' = "put"
          /\ UNCHANGED tres
     ELSE /\ tpc' = "done"
          /\ tres' = GithubError(s)
  /\ UNCHANGED <<tool, prev, tree, sub, contributorsCount>>
  /\ UNCHANGED nonToolVars

\* index.ts:267-276: where rename_file goes after the answer to its create:
\* the throw of githubRequest ends the handler, a return leads to the delete
AfterCreateAlways(s) == "delete"
AfterCreate(s) == IF responseOk(s) THEN "delete" ELSE "done"

\* index.ts:267-274: create the new file
RenamePut(s) ==
  /\ tpc = "put"
  /\ s \in RenamePutAnswers
  /\ tseen' = Append(tseen, s)
  /\ tree' = IF s = 201 THEN tree \cup {"newPath"} ELSE tree
  /\ tpc' = AfterCreate(s)
  /\ tres' = IF AfterCreate(s) = "done" THEN GithubError(s) ELSE tres
  /\ UNCHANGED <<tool, prev, sub, contributorsCount>>
  /\ UNCHANGED nonToolVars

\* index.ts:276-285: delete the old file and return
RenameDelete(s) ==
  /\ tpc = "delete"
  /\ s \in RenameDeleteAnswers
  /\ tseen' = Append(tseen, s)
  /\ tree' = IF s = 200 THEN tree \ {"oldPath"} ELSE tree
  /\ tpc' = "done"
  /\ tres' = IF responseOk(s) THEN ToolSuccess(s) ELSE GithubError(s)
  /\ UNCHANGED <<tool, prev, sub, contributorsCount>>
  /\ UNCHANGED nonToolVars

\* another actor creates or removes one of the two paths
OtherActorTree(p) ==
  /\ tree' = IF p \in tree THEN tree \ {p} ELSE tree \cup {p}
  /\ UNCHANGED <<tool, tpc, tseen, tres, prev, sub, contributorsCount>>
  /\ UNCHANGED nonToolVars

\* index.ts:159-176: request i of get_project_stats is answered with status
\* s; n is the length of the list an answered contributors request carries.
\* Promise.all rejects with the first rejection it sees and resolves when all
\* four have resolved; answers arriving after a rejection change nothing.
StatsAnswer(i, s, n) ==
  /\ tool = "get_project_stats"
  /\ sub[i] = "pending"
  /\ LET rejected == ~responseOk(s) /\ ~Tolerated(i)
         after == [sub EXCEPT ![i] = IF responseOk(s) THEN "ok" ELSE "failed"]
         count == IF i # "contributors" THEN contributorsCount
                  ELSE IF responseOk(s) THEN n ELSE 0
     IN /\ sub' = after
        /\ contributorsCount' = count
        /\ IF tpc # "all"
           THEN UNCHANGED <<tpc, tres>>
           ELSE IF rejected
           THEN /\ tpc' = "done"
                /\ tres' = GithubError(s)
           ELSE IF \A j \in StatsCalls : after[j] # "pending"
           THEN /\ tpc' = "done"
                /\ tres' = ToolSuccess(200)
           ELSE UNCHANGED <<tpc, tres>>
  /\ UNCHANGED <<tool, tseen, prev, tree>>
  /\ UNCHANGED nonToolVars

NextTools ==
  \/ \E t \in Tools \cup {UnknownTool}, shape \in Shapes : ToolStart(t, shape)
  \/ \E s \in GetAnswers : ToolGet(s)
  \/ \E s \in GetAnswers : ToolGetSecond(s)
  \/ \E s \in GetAnswers : DiffFetch(s)
  \/ \E s \in GetAnswers : RenameRead(s)
  \/ \E s \in {201, 422} \cup ReadFaults : RenamePut(s)
  \/ \E s \in {200, 404, 409} \cup ReadFaults : RenameDelete(s)
  \/ \E p \in Paths : OtherActorTree(p)
  \/ \E i \in StatsCalls, s \in {200} \cup ReadFaults, n \in 0..1 : StatsAnswer(i, s, n)

InitToolCalls ==
  /\ InitSession
  /\ InitCalls
  /\ file = [b \in Branches |-> NoFile]
  /\ InitTools
  /\ InitNoArgs
  /\ tree \in SUBSET Paths

SpecTools == InitToolCalls /\ [][NextTools]_vars

\* ================================================================ endpoints
\* the tools registered on the McpServer of connection c; server.tool is
\* called nowhere but inside createMcpServer
registry(c) ==
  IF mcpServer[c] = NoServer THEN {} ELSE createMcpServer(mcpServer[c])

\* index.ts:1219: sessions: Object.keys(transports).length
HealthSessionsEver(tbl) == Cardinality(used)
HealthSessions(tbl) == Cardinality(DOMAIN tbl)

\* index.ts:1217-1223: the body of GET /health
HealthBody ==
  [status |-> "ok", sessions |-> HealthSessions(transports),
   version |-> Version, toolCount |-> toolCount]

\* index.ts:1252-1263: the body of GET /
RootBodyAdvertised ==
  [status |-> "ok", version |-> Version, toolCount |-> toolCount,
   tools |-> SubSeq(TOOLS, 1, toolCount)]
RootBody ==
  [status |-> "ok", version |-> Version, toolCount |-> Len(TOOLS),
   tools |-> TOOLS]

\* index.ts:1216-1224: GET /health is served
Health ==
  /\ ~crashed /\ ~Busy
  /\ health' = HealthBody
  /\ UNCHANGED <<sessVars, updVars, toolVars, callVars, root>>

\* index.ts:1251-1264: GET / is served
Root ==
  /\ ~crashed /\ ~Busy
  /\ root' = RootBody
  /\ UNCHANGED <<sessVars, updVars, toolVars, callVars, health>>

\* the session lifecycle together with the two information endpoints
NextInfo ==
  \/ \E c \in Conns : SseOpen(c)
  \/ \E c \in Conns : SseConnectOk(c)
  \/ \E c \in Conns : SseConnectFail(c)
  \/ \E c \in Conns, why \in Causes : StreamClose(c, why)
  \/ \E c \in Conns : LateOnClose(c)
  \/ Health
  \/ Root

SpecInfo == Init /\ [][NextInfo]_vars

\* ============================================================ handler inputs
\* Four handlers followed with their arguments: generate_build_url,
\* list_projects, delete_file and read_multiple_files.  The arguments and the
\* upstream's repositories are drawn in the initial state.
MaxPromptLen == 2
MaxImages == 11

InputTools ==
  {"generate_build_url", "list_projects", "delete_file", "read_multiple_files"}

\* A string is the sequence of its characters.  "a" and the letters of
\* IdChars stand for the characters encodeURIComponent leaves alone, "&" and
\* "%" for those it escapes, LoneSurrogate for a UTF-16 surrogate without its
\* partner (a JSON request can carry one as a \u escape; z.string() takes it).
LoneSurrogate == "<D800>"
IdChars == <<"b", "c", "d", "e", "f", "g", "h", "i", "j", "k", "l", "m", "n">>
IdChar(i) == IdChars[((i - 1) % Len(IdChars)) + 1]
Unreserved == {"a"} \cup {IdChars[i] : i \in 1..Len(IdChars)}
Chars == {"a", "&", "%", LoneSurrogate}
Strings(n) == UNION {[1..k -> Chars] : k \in 0..n}

\* encodeURIComponent throws URIError on a string that is not well formed
isWellFormed(str) == \A i \in 1..Len(str) : str[i] # LoneSurrogate
\* and otherwise replaces every character outside its unreserved set by the
\* escape of its UTF-8 bytes; an escape is one element of the output here
Escape(ch) == CASE ch = "&" -> "%26" [] ch = "%" -> "%25" [] OTHER -> ch
encodeURIComponent(str) == [i \in 1..Len(str) |-> Escape(str[i])]

\* Array.prototype.slice(lo, hi) and Array.prototype.join(sep)
sliceAll(arr, lo, hi) == arr
slice(arr, lo, hi) ==
  SubSeq(arr, lo + 1, IF hi < Len(arr) THEN hi ELSE Len(arr))

RECURSIVE join(_, _)
join(parts, sep) ==
  IF parts = <<>> THEN <<>>
  ELSE IF Len(parts) = 1 THEN parts[1]
  ELSE parts[1] \o sep \o join(Tail(parts), sep)

\* index.ts:1127: images.slice(0, 10)
ImageLimit == 10
\* index.ts:1124: the literal the URL starts with, one element of the output
Prefix == "https://lovable.dev/?autosubmit=true#prompt="

\* index.ts:1123-1129
BuildUrl(prompt, images) ==
  LET sent == slice(images, 0, ImageLimit)
      imageParams ==
        join([i \in 1..Len(sent) |-> <<"images=">> \o encodeURIComponent(sent[i])],
             <<"&">>)
  IN <<Prefix>> \o encodeURIComponent(prompt)
       \o (IF Len(images) > 0 THEN <<"&">> \o imageParams ELSE <<>>)

\* what throws while the URL is built: the prompt's encoding (index.ts:1123)
\* or the encoding of one of the images kept by the slice (index.ts:1127)
BuildUrlThrows(prompt, images) ==
  \/ ~isWellFormed(prompt)
  \/ \E i \in 1..Len(slice(images, 0, ImageLimit)) : ~isWellFormed(images[i])

\* index.ts:1131: { url, promptLength }; a thrown URIError becomes an isError
\* Result in the McpServer
UrlResult == [ok |-> TRUE, kind |-> "url", status |-> 0]
URIError == [ok |-> FALSE, kind |-> "URIError", status |-> 0]

\* the image lists tried: n images, each with a character that is escaped and
\* one that tells it from the others, the one at position bad (if any) not
\* well formed; an omitted images argument behaves as the empty list
\* (index.ts:1126)
ImagesOf(n, bad) ==
  [i \in 1..n |-> IF i = bad THEN <<LoneSurrogate>> ELSE <<"&", IdChar(i)>>]
ImageLists ==
  UNION {{ImagesOf(n, bad) : bad \in {0, 1, n}} : n \in 0..MaxImages}

BuildUrlArgs ==
  {[shape |-> "valid", prompt |-> p, images |-> imgs] :
     p \in Strings(MaxPromptLen), imgs \in ImageLists}

\* index.ts:1122-1132: the whole handler; it awaits nothing
GenerateBuildUrl ==
  /\ tool = "generate_build_url" /\ tpc = "start"
  /\ tpc' = "done"
  /\ LET throws == BuildUrlThrows(targs.prompt, targs.images) IN
       /\ tres' = IF throws THEN URIError ELSE UrlResult
       /\ tout' = IF throws THEN <<>> ELSE BuildUrl(targs.prompt, targs.images)
  /\ UNCHANGED <<tool, tseen, prev, tree, sub, contributorsCount>>
  /\ UNCHANGED <<targs, ti, account>>
  /\ UNCHANGED <<sessVars, updVars, infoVars>>

\* ------------------------------------------------------------ list_projects
MaxRepos == 2

\* index.ts:37-39: the three names isLovableProject looks for
Markers == {"vite.config.ts", "tailwind.config.ts", "components.json"}

\* a repository of the listing: its private flag, the upstream's status for
\* GET /repos/.../contents and the names in its root
RootListings ==
  {Markers, Markers \cup {"README.md"}} \cup {Markers \ {m} : m \in Markers}
Repos ==
  [private : BOOLEAN, status : {200}, root : RootListings]
    \cup [private : BOOLEAN, status : ReadFaults, root : {{}}]
Accounts == UNION {[1..n -> Repos] : n \in 0..MaxRepos}

\* index.ts:32-45: true only if the probe was answered and all three names
\* are in the root; the catch turns every failure into false
isLovableProject(repo) ==
  IF ~responseOk(repo.status) THEN FALSE
  ELSE /\ "vite.config.ts" \in repo.root
       /\ "tailwind.config.ts" \in repo.root
       /\ "components.json" \in repo.root

\* index.ts:94-95: includePrivate is optional and defaults to true
IncludePrivateIfAsked(args) == args.given /\ args.value
IncludePrivate(args) == IF args.given THEN args.value ELSE TRUE

\* includePrivate is given as true or as false, or it is omitted
ListProjectsArgs ==
  {[shape |-> "valid", given |-> TRUE, value |-> v] : v \in BOOLEAN}
    \cup {[shape |-> "valid", given |-> FALSE, value |-> FALSE]}

\* index.ts:96: the account's listing; a failure is not caught
ListRepos(s) ==
  /\ tool = "list_projects" /\ tpc = "start"
  /\ tseen' = <<s>>
  /\ tpc' = IF responseOk(s) THEN "loop" ELSE "done"
  /\ tres' = IF responseOk(s) THEN tres ELSE GithubError(s)
  /\ UNCHANGED <<tool, prev, tree, sub, contributorsCount>>
  /\ UNCHANGED <<targs, ti, tout, account>>
  /\ UNCHANGED <<sessVars, updVars, infoVars>>

\* index.ts:99-100: the next repository is private and private ones are not
\* wanted: continue
ListSkip ==
  /\ tool = "list_projects" /\ tpc = "loop" /\ ti < Len(account)
  /\ ~IncludePrivate(targs) /\ account[ti + 1].private
  /\ ti' = ti + 1
  /\ UNCHANGED toolVars
  /\ UNCHANGED <<targs, tout, account>>
  /\ UNCHANGED <<sessVars, updVars, infoVars>>

\* index.ts:102-112: the next repository is probed and pushed if it passes
ListProbe ==
  /\ tool = "list_projects" /\ tpc = "loop" /\ ti < Len(account)
  /\ ~(~IncludePrivate(targs) /\ account[ti + 1].private)
  /\ tseen' = Append(tseen, account[ti + 1].status)
  /\ tout' = IF isLovableProject(account[ti + 1])
             THEN Append(tout, ti + 1) ELSE tout
  /\ ti' = ti + 1
  /\ UNCHANGED <<tool, tpc, tres, prev, tree, sub, contributorsCount>>
  /\ UNCHANGED <<targs, account>>
  /\ UNCHANGED <<sessVars, updVars, infoVars>>

\* index.ts:115: the loop is over, the projects collected are returned
ListReturn ==
  /\ tool = "list_projects" /\ tpc = "loop" /\ ti = Len(account)
  /\ tpc' = "done"
  /\ tres' = ToolData(200)
  /\ UNCHANGED <<tool, tseen, prev, tree, sub, contributorsCount>>
  /\ UNCHANGED callVars
  /\ UNCHANGED <<sessVars, updVars, infoVars>>

\* -------------------------------------------------------------- delete_file
\* index.ts:249: sha: existing.sha, the token the read returned
ShaSentCurrent(read, cur) == cur
ShaSent(read, cur) == read

\* the upstream's answers to DELETE .../contents/${path} with { branch, sha }:
\* the file must exist on the branch with that token; any request may also be
\* refused
DeleteAnswers(cur, sha) ==
  {IF cur = NoFile THEN 404 ELSE IF sha = cur THEN 200 ELSE 409}
    \cup ReadFaults

\* index.ts:254: { success: true, deleted: path }
DeleteSuccess(status) == [ok |-> TRUE, kind |-> "success", status |-> status]

\* branch is optional: `branch || "main"` (index.ts:250)
DeleteFileArgs == {[shape |-> "valid", branch |-> b] : b \in Branches}

\* index.ts:243: the read, without ?ref; a failure is not caught
DelRead(s) ==
  /\ tool = "delete_file" /\ tpc = "start"
  /\ s \in {GetStatus(file[DefaultBranch])} \cup ReadFaults
  /\ tseen' = <<s>>
  /\ tpc' = IF responseOk(s) THEN "delete" ELSE "done"
  /\ tout' = IF responseOk(s) THEN <<file[DefaultBranch]>> ELSE tout
  /\ tres' = IF responseOk(s) THEN tres ELSE GithubError(s)
  /\ UNCHANGED <<tool, prev, tree, sub, contributorsCount>>
  /\ UNCHANGED <<targs, ti, account>>
  /\ UNCHANGED <<sessVars, updVars, infoVars>>

\* index.ts:245-254: the DELETE and the return
DelDelete(s) ==
  /\ tool = "delete_file" /\ tpc = "delete"
  /\ LET b == targs.branch
         sha == ShaSent(tout[1], file[b])
     IN /\ s \in DeleteAnswers(file[b], sha)
        /\ tout' = Append(tout, sha)
        /\ file' = IF responseOk(s) THEN [file EXCEPT ![b] = NoFile] ELSE file
  /\ tseen' = Append(tseen, s)
  /\ tpc' = "done"
  /\ tres' = IF responseOk(s) THEN DeleteSuccess(s) ELSE GithubError(s)
  /\ UNCHANGED <<tool, prev, tree, sub, contributorsCount>>
  /\ UNCHANGED <<targs, ti, account>>
  /\ UNCHANGED <<otherWrites, upc, ubranch, usha, ures, uhist>>
  /\ UNCHANGED <<sessVars, infoVars>>

\* ------------------------------------------------------ read_multiple_files
MaxPaths == 2

\* the paths asked for; "__proto__" is a legal file name and a legal string
PathNames == {"a.ts", "b.ts", "__proto__"}
ReadMultipleArgs ==
  {[shape |-> "valid", paths |-> ps] :
     ps \in UNION {[1..n -> PathNames] : n \in 0..MaxPaths}}

\* index.ts:197, 202, 204: results is a plain object ({}); results[path] = v
\* makes path an own key of it, except for "__proto__", which is the accessor
\* inherited from Object.prototype: its setter ignores a value that is
\* neither an object nor null, and results stays as it was
Assign(results, key, v) ==
  IF key = "__proto__" THEN results
  ELSE [k \in DOMAIN results \cup {key} |->
          IF k = key THEN v ELSE results[k]]

\* index.ts:202 and 204: the decoded content, or `Error: ${e.message}`
Entry(s) == [error |-> ~responseOk(s), status |-> s]

\* index.ts:199-205: one path is fetched and its entry assigned, inside its
\* own try/catch
ReadPath(s) ==
  /\ tool = "read_multiple_files" /\ tpc = "start" /\ ti < Len(targs.paths)
  /\ tseen' = Append(tseen, s)
  /\ tout' = Assign(tout, targs.paths[ti + 1], Entry(s))
  /\ ti' = ti + 1
  /\ UNCHANGED <<tool, tpc, tres, prev, tree, sub, contributorsCount>>
  /\ UNCHANGED <<targs, account>>
  /\ UNCHANGED <<sessVars, updVars, infoVars>>

\* index.ts:208: JSON.stringify(results), its own keys only
ReadReturn ==
  /\ tool = "read_multiple_files" /\ tpc = "start" /\ ti = Len(targs.paths)
  /\ tpc' = "done"
  /\ tres' = ToolData(200)
  /\ UNCHANGED <<tool, tseen, prev, tree, sub, contributorsCount>>
  /\ UNCHANGED callVars
  /\ UNCHANGED <<sessVars, updVars, infoVars>>

\* --------------------------------------------------------------------------
ArgsOf(t) ==
  CASE t = "generate_build_url" -> BuildUrlArgs
    [] t = "list_projects" -> ListProjectsArgs
    [] t = "delete_file" -> DeleteFileArgs
    [] t = "read_multiple_files" -> ReadMultipleArgs

\* one call of one of the four tools is about to enter its handler
InitInputs ==
  /\ InitSession
  /\ InitCalls
  /\ tool \in InputTools
  /\ tpc = "start"
  /\ tseen = <<>>
  /\ tres = NoResult
  /\ prev = NoPrev
  /\ tree = {}
  /\ sub = [i \in StatsCalls |-> "idle"]
  /\ contributorsCount = -1
  /\ ti = 0
  /\ tout = <<>>
  /\ targs \in ArgsOf(tool)
  /\ account \in (IF tool = "list_projects" THEN Accounts ELSE {<<>>})
  /\ file \in (IF tool = "delete_file"
               THEN [Branches -> Tokens \cup {NoFile}]
               ELSE {[b \in Branches |-> NoFile]})

NextInputs ==
  \/ GenerateBuildUrl
  \/ \E s \in {200} \cup ReadFaults : ListRepos(s)
  \/ ListSkip
  \/ ListProbe
  \/ ListReturn
  \/ \E s \in GetAnswers : DelRead(s)
  \/ \E s \in {200, 404, 409} \cup ReadFaults : DelDelete(s)
  \/ (tool = "delete_file"
        /\ \E b \in Branches, t \in Tokens \cup {NoFile} : OtherActorWrite(b, t))
  \/ \E s \in GetAnswers : ReadPath(s)
  \/ ReadReturn

SpecInputs == InitInputs /\ [][NextInputs]_vars

\* ================================================================ claims

\* number of frames of request r on connection c
FrameCount(c, r) == Cardinality({i \in 1..Len(stream[c]) : stream[c][i] = r})

\* C1: once a session's stream has closed, its identifier is never in the
\* transports table again, and every later POST /messages naming it is
\* answered 404 without being handed to a transport.
C1_ClosedSessionNotFound ==
  [][ /\ \A id \in ClosedIds : id \notin DOMAIN transports'
      /\ \A r \in Reqs :
           (rpc[r] = "unsent" /\ rpc'[r] # "unsent" /\ rsid'[r] \in ClosedIds)
             => (rstatus'[r] = 404 /\ rpc'[r] = "rejected" /\ rconn'[r] = NoConn)
    ]_vars

\* a POST named the identifier of a session that had been open and was closed
C1_Witness ==
  \E r \in Reqs, c \in Conns :
    /\ pc[c] = "closed" /\ rsid[r] = sessionId[c] /\ rseen[r] = "closed"
    /\ rstatus[r] = 404

\* C2 (as claimed): every identifier in the transports table maps to a
\* transport whose SSE channel is established, also between the insert at
\* GET /sse and the completion of mcpServer.connect.
C2_TableEntriesOpen ==
  \A id \in DOMAIN transports : sseResponse[transports[id]]

\* C3: an entry is added only when its session is created, under that
\* session's fresh identifier, and once removed it never comes back; no
\* closed or failed session keeps an entry; closing one stream (also by a
\* write error) leaves every other session's entry and stream alone and the
\* process running.
C3_EntryOnceInOnceOut ==
  [][ /\ \A id \in Ids :
           /\ (id \in used /\ id \notin DOMAIN transports)
                => id \notin DOMAIN transports'
           /\ (id \in DOMAIN transports' /\ id \notin DOMAIN transports)
                => \E c \in Conns : /\ pc[c] = "idle" /\ pc'[c] = "connecting"
                                    /\ sessionId'[c] = id /\ transports'[id] = c
      /\ \A c \in Conns :
           /\ (pc[c] = "idle" /\ pc'[c] # "idle")
                => sessionId'[c] \in DOMAIN transports'
           /\ pc'[c] \in {"closed", "failed"}
                => sessionId'[c] \notin DOMAIN transports'
           /\ (pc'[c] = "open" /\ pc[c] = "open")
                => /\ sessionId[c] \in DOMAIN transports'
                   /\ transports'[sessionId[c]] = c
                   /\ sseResponse'[c]
      /\ ~crashed'
    ]_vars

\* one stream was ended by a write error while another session stays open
C3_Witness ==
  \E c, d \in Conns :
    /\ pc[c] = "closed" /\ cause = "error"
    /\ pc[d] = "open" /\ DOMAIN transports = {sessionId[d]}

\* C4: as long as no stream has closed or failed, N stream-opens leave exactly
\* N entries under N pairwise distinct identifiers, each mapping to its own
\* transport.
C4_DistinctIdentifiers ==
  /\ \A c, d \in Conns :
       (c # d /\ sessionId[c] # NoSessionId /\ sessionId[d] # NoSessionId)
         => sessionId[c] # sessionId[d]
  /\ (\A c \in Conns : pc[c] \in {"idle", "connecting", "open"})
       => /\ Cardinality(DOMAIN transports)
               = Cardinality({c \in Conns : pc[c] # "idle"})
          /\ \A c \in Conns : pc[c] # "idle"
               => /\ sessionId[c] \in DOMAIN transports
                  /\ transports[sessionId[c]] = c

\* every connection has opened a stream and none has closed
C4_Witness ==
  /\ \A c \in Conns : pc[c] = "open"
  /\ Cardinality(DOMAIN transports) = MaxConns

C8_ResultOnOwnStream ==
  \A c \in Conns : \A i \in 1..Len(stream[c]) :
    LET r == stream[c][i] IN
      /\ rconn[r] = c
      /\ rsid[r] = sessionId[c]
      /\ FrameCount(c, r) = 1
      /\ \A d \in Conns \ {c} : FrameCount(d, r) = 0

\* two open sessions, each has received the Result of its own request
C8_Witness ==
  \E c, d \in Conns :
    /\ c # d /\ pc[c] = "open" /\ pc[d] = "open"
    /\ stream[c] # <<>> /\ stream[d] # <<>>

\* C9 (as claimed): when another actor changes the token update_file has read
\* before its PUT, the call does not overwrite the file and ends in a failure
\* of the distinct kind ConflictOrStale.
C9_StaleIsConflictOrStale ==
  \A k \in Calls :
    (upc[k] = "done" /\ usha[k] # NoSha /\ uhist[k].beatenBy = OtherActor)
      => (~ures[k].ok /\ ures[k].kind = "ConflictOrStale")

\* two calls that were in flight at the same time, on the same branch
Concurrent(j, k) ==
  /\ j # k /\ upc[j] = "done" /\ upc[k] = "done"
  /\ uhist[j].overlap /\ uhist[k].overlap
  /\ ubranch[j] = ubranch[k]

C11_OtherReadFailurePropagates ==
  \A k \in Calls :
    uhist[k].read \in ReadFaults =>
      (upc[k] = "done" /\ ~ures[k].ok)

\* the upstream reported absence to every request of the current call
AllAbsent(seen) == Len(seen) > 0 /\ \A i \in 1..Len(seen) : seen[i] = 404

\* C12 (as claimed): when rename_file's create at newPath succeeded and its
\* delete of oldPath then failed, the Result is an explicit partial success,
\* distinct from the full-success Result and from an ordinary failure.
C12_PartialRenameReported ==
  (/\ tool = "rename_file" /\ tpc = "done"
   /\ Len(tseen) = 3 /\ tseen[2] = 201 /\ ~responseOk(tseen[3]))
    => tres.kind \notin {"success", "Error"}

\* C13 (as claimed): every well-known-file tool answers an upstream "not
\* found" with a success Result that carries the not-found marker.
C13_WellKnownAbsentMarker ==
  (tool \in WellKnownFiles /\ tpc = "done" /\ tseen = <<404>>)
    => tres = ToolMarker

\* C14: every conventional-folder tool answers a repository without its
\* folder with a success Result carrying the absence marker, never with a
\* failure, and a repeated call on such a repository gives the same Result.
C14_AbsentFolderMarker ==
  (tool \in ConventionalFolders /\ tpc = "done" /\ AllAbsent(tseen))
    => /\ tres.ok /\ tres = ToolMarker
       /\ (prev.tool = tool /\ AllAbsent(prev.seen)) => prev.res = tres

\* list_utils found neither src/utils nor src/lib, twice in a row
C14_Witness ==
  /\ tool = "list_utils" /\ tpc = "done" /\ tseen = <<404, 404>>
  /\ prev.tool = "list_utils" /\ prev.seen = <<404, 404>>
  /\ tres = ToolMarker

\* C15 (as claimed): no tool returns a success Result whose payload is the
\* body of an upstream response with a non-success status; this includes the
\* raw-diff request of get_diff.
C15_NoSuccessFromFailedResponse ==
  (tpc = "done" /\ tres.ok /\ tres.kind = "body") => responseOk(tres.status)

\* C16: get_project_stats, called with arguments its schema accepts, has its
\* four requests outstanding together; it
\* fails as soon as the repository, languages or commits request fails,
\* whatever has been answered before, and succeeds when those three succeed,
\* with contributorsCount 0 when only the contributors request failed.
C16_StatsToleratesContributors ==
  (tool = "get_project_stats" /\ targs.shape = "valid") =>
    /\ \A i \in StatsCalls : sub[i] # "idle"
    /\ (\E i \in StatsCalls \ {"contributors"} : sub[i] = "failed")
         => (tpc = "done" /\ ~tres.ok)
    /\ (\A i \in StatsCalls :
          sub[i] = "ok" \/ (i = "contributors" /\ sub[i] = "failed"))
         => /\ tpc = "done" /\ tres = ToolSuccess(200)
            /\ sub["contributors"] = "failed" => contributorsCount = 0
    /\ (tpc = "done" /\ tres.ok)
         => \A i \in StatsCalls \ {"contributors"} : sub[i] = "ok"

\* only the contributors request failed and the call succeeded with count 0
C16_Witness ==
  /\ tool = "get_project_stats" /\ tpc = "done" /\ tres.ok
  /\ sub["contributors"] = "failed" /\ contributorsCount = 0
  /\ \A i \in StatsCalls \ {"contributors"} : sub[i] = "ok"

\* the connections whose GET /sse handler has created their session
Created == {c \in Conns : pc[c] # "idle"}
OpenSessions == {c \in Conns : pc[c] = "open"}
Listed(body) == {body.tools[i] : i \in 1..Len(body.tools)}

C18_HealthCountsOpenSessions ==
  [][ /\ health' # health
           => /\ health'.sessions = Cardinality(OpenSessions)
              /\ transports' = transports
      /\ root' # root => transports' = transports
      /\ ~Busy' => HealthBody'.sessions = Cardinality(OpenSessions')
    ]_vars

\* /health reported the one open session while another session had already
\* ended, and GET / had been served as well
C18_Witness ==
  /\ health # NoResponse /\ health.sessions = 1
  /\ root # NoResponse
  /\ \E c, d \in Conns : pc[c] = "open" /\ pc[d] \in {"closed", "failed"}
  /\ Cardinality(OpenSessions) = 1

\* C19: the names GET / lists are exactly the names registered on the
\* McpServer of every session.
C19_ListedEqualsRegistered ==
  root # NoResponse =>
    \A c \in Created : Listed(root) = registry(c)

\* GET / was served and a session with its registry exists
C19_Witness ==
  /\ root # NoResponse
  /\ \E c \in Created : registry(c) # {} /\ pc[c] = "open"

\* C20 (as claimed): the number of registered tools, the length of the list
\* of GET / and its toolCount, and the toolCount of GET /health are all 50.
C20_FiftyTools ==
  (root # NoResponse /\ health # NoResponse) =>
    /\ \A c \in Created : Cardinality(registry(c)) = 50
    /\ Len(root.tools) = 50 /\ root.toolCount = 50
    /\ health.toolCount = 50

\* C23: removing a session from the transports table again (onclose after the
\* delete of the connect catch, or a second onclose) leaves the table as the
\* first removal left it, raises nothing, and removes no other session's
\* entry.
C23_RemovalIdempotent ==
  [][ lateClose' # lateClose
        => (transports' = transports /\ ~crashed' /\ pc' = pc) ]_vars

\* onclose ran again for a failed connect while another session was open
C23_Witness ==
  /\ lateClose >= 1
  /\ \E c, d \in Conns :
       /\ pc[c] = "failed" /\ sessionId[c] \notin DOMAIN transports
       /\ pc[d] = "open" /\ sessionId[d] \in DOMAIN transports

\* C26: rename_file reads oldPath, creates newPath and deletes oldPath in that
\* order; it deletes oldPath only after its create was answered 201, and a
\* failed read or create ends the call without any change made by it.
C26_RenameDeletesAfterCreate ==
  [][ (tool = "rename_file" /\ tool' = tool /\ tpc' # tpc)
        => /\ tpc = "read" => (tree' = tree /\ tpc' \in {"put", "done"})
           /\ tpc = "put"
                => /\ tpc' \in {"delete", "done"}
                   /\ tree' \in {tree, tree \cup {"newPath"}}
                   /\ tpc' = "done" => (tree' = tree /\ ~tres'.ok)
           /\ tpc = "delete"
                => /\ tseen = <<200, 201>>
                   /\ tpc' = "done"
                   /\ tree' \in {tree, tree \ {"oldPath"}}
           /\ tree' # tree => tpc \in {"put", "delete"}
    ]_vars

\* the rename went through: oldPath is gone after newPath had been created
C26_Witness ==
  /\ tool = "rename_file" /\ tpc = "done" /\ tseen = <<200, 201, 200>>
  /\ tres.ok /\ tree = {"newPath"}

\* C29: list_utils asks for src/utils first and for src/lib only after the
\* first request failed; it returns the absence marker only when both failed,
\* a listing otherwise, makes at most two requests and, once its arguments
\* were accepted, never fails.
C29_UtilsThenLib ==
  (tool = "list_utils" /\ targs.shape = "valid") =>
    /\ Len(tseen) <= 2
    /\ tpc = "get" <=> tseen = <<>>
    /\ tpc = "lib" <=> (Len(tseen) = 1 /\ ~responseOk(tseen[1]))
    /\ Len(tseen) = 2 => (tpc = "done" /\ ~responseOk(tseen[1]))
    /\ tpc = "done" =>
         /\ tres.ok
         /\ tres = ToolMarker
              <=> (Len(tseen) = 2 /\ \A i \in 1..2 : ~responseOk(tseen[i]))
         /\ tres # ToolMarker => tres = ToolData(200)

\* src/utils was absent and the listing of src/lib was returned
C29_Witness ==
  /\ tool = "list_utils" /\ tpc = "done" /\ tseen = <<404, 200>>
  /\ tres = ToolData(200)

\* C27 (as claimed): update_file reads the version token on the branch its
\* PUT targets: when the read was answered and nobody else wrote or ran, the
\* token sent with the PUT is the file's current token on that branch (none
\* when the file is absent there).
C27_TokenFromTargetBranch ==
  \A k \in Calls :
    (/\ upc[k] = "writing" /\ uhist[k].read \notin ReadFaults
     /\ otherWrites = 0 /\ \A j \in Calls \ {k} : upc[j] = "idle")
      => usha[k] = file[ubranch[k]]

RECURSIVE SplitOn(_, _)
SplitOn(str, sep) ==
  IF \A i \in 1..Len(str) : str[i] # sep THEN <<str>>
  ELSE LET i == CHOOSE k \in 1..Len(str) :
                  str[k] = sep /\ \A j \in 1..(k - 1) : str[j] # sep
       IN <<SubSeq(str, 1, i - 1)>> \o SplitOn(SubSeq(str, i + 1, Len(str)), sep)
Unescape(tok) == CASE tok = "%26" -> "&" [] tok = "%25" -> "%" [] OTHER -> tok
decodeURIComponent(str) == [i \in 1..Len(str) |-> Unescape(str[i])]
Encoded(str) ==
  \A i \in 1..Len(str) : str[i] \in Unreserved \cup {"%26", "%25"}

\* url is the prefix, the encoded prompt and, for each of the first ImageLimit
\* images in input order, "&images=" and the encoded image; nothing else
UrlAsClaimed(url, prompt, images) ==
  LET parts == SplitOn(Tail(url), "&")
      n == IF Len(images) < ImageLimit THEN Len(images) ELSE ImageLimit
  IN /\ url[1] = Prefix
     /\ Len(parts) = 1 + n
     /\ Encoded(parts[1]) /\ decodeURIComponent(parts[1]) = prompt
     /\ \A i \in 1..n :
          /\ parts[i + 1] # <<>> /\ parts[i + 1][1] = "images="
          /\ Encoded(Tail(parts[i + 1]))
          /\ decodeURIComponent(Tail(parts[i + 1])) = images[i]

\* C21 (as claimed): generate_build_url makes no upstream call and returns,
\* for every prompt, the prefix followed by the percent-encoded prompt and,
\* with images, by at most the first 10 of them as encoded images= parameters
\* in input order.
C21_UrlForEveryPrompt ==
  (tool = "generate_build_url" /\ tpc = "done")
    => /\ tseen = <<>>
       /\ tres.ok
       /\ UrlAsClaimed(tout, targs.prompt, targs.images)

\* C21 (amended): the same for every prompt and images that
\* encodeURIComponent can encode; a prompt, or one of the first 10 images,
\* with an unpaired surrogate ends the call in a failure Result without a URL
\* and, again, without an upstream call.
C21_UrlForWellFormedPrompt ==
  (tool = "generate_build_url" /\ tpc = "done")
    => /\ tseen = <<>>
       /\ IF /\ isWellFormed(targs.prompt)
             /\ \A i \in 1..Len(targs.images) :
                  i <= ImageLimit => isWellFormed(targs.images[i])
          THEN tres.ok /\ UrlAsClaimed(tout, targs.prompt, targs.images)
          ELSE ~tres.ok /\ tout = <<>>

\* a prompt with an escaped character and eleven images gave a URL with ten
C21_Witness ==
  /\ tool = "generate_build_url" /\ tpc = "done" /\ tres.ok
  /\ targs.prompt = <<"a", "&">> /\ Len(targs.images) = 11
  /\ Len(SplitOn(Tail(tout), "&")) = 11

\* the repositories of the listing that list_projects is to return
Qualifies(i) ==
  /\ account[i].status = 200 /\ Markers \subseteq account[i].root
  /\ ~(account[i].private /\ targs.given /\ ~targs.value)

C28_DeleteAfterRead ==
  [][ (tool = "delete_file" /\ tpc' # tpc)
        => /\ tpc = "start"
             => /\ file' = file
                /\ IF responseOk(tseen'[1])
                   THEN tpc' = "delete" /\ tout' = <<file[DefaultBranch]>>
                   ELSE tpc' = "done" /\ ~tres'.ok /\ Len(tseen') = 1
           /\ tpc = "delete"
             => /\ tseen = <<200>> /\ tpc' = "done"
                /\ tout' = <<tout[1], tout[1]>>
                /\ tres'.ok <=> responseOk(tseen'[2])
                /\ file' # file => tres'.ok
    ]_vars

\* the file was changed by somebody else after the read, the DELETE carried
\* the token read and was refused
C28_Witness ==
  /\ tool = "delete_file" /\ tpc = "done" /\ tseen = <<200, 409>>
  /\ otherWrites = 1 /\ tout[2] = tout[1] /\ tout[1] # file[targs.branch]
  /\ ~tres.ok

\* the last answer the upstream gave for path p
LastAnswer(p) ==
  LET i == CHOOSE k \in 1..Len(targs.paths) :
             targs.paths[k] = p /\ \A j \in (k + 1)..Len(targs.paths) :
                                      targs.paths[j] # p
  IN tseen[i]

\* C30 (as claimed): read_multiple_files fetches the paths one by one in input
\* order, never fails because of a path, and returns exactly one entry per
\* distinct path: an error string where the fetch failed, the content
\* elsewhere.
C30_OneEntryPerPath ==
  (tool = "read_multiple_files" /\ tpc = "done")
    => /\ tres.ok
       /\ Len(tseen) = Len(targs.paths)
       /\ DOMAIN tout = {targs.paths[i] : i \in 1..Len(targs.paths)}
       /\ \A p \in DOMAIN tout : tout[p].error <=> ~responseOk(LastAnswer(p))

====
